---- MODULE Spec2Model ----
(***************************************************************************)
(* SMRA (Smart Readahead) core: the page-fault recorder, its target        *)
(* registry, the lifecycle operations and post-processing, modelled from   *)
(* smra_core.c.  One control thread issues setup/start/stop/reset/         *)
(* post_processing one at a time; fault threads run rvh_do_read_fault      *)
(* concurrently.  Steps are cut at lock acquisitions and releases.         *)
(* Two further drivers follow, each with a specification of its own:       *)
(* max77779_get_irq of max77779_vdroop.c (SpecBcl) and the mm hint         *)
(* parameters of pixel_mm_hint.c (SpecMm).                                 *)
(***************************************************************************)
EXTENDS Integers, Sequences, FiniteSets, TLC

(* ---- bounds ---- *)
MaxTargets == 2
MaxSize == 2
MaxFaults == 2
MaxOps == 3

(* ---- program constants ---- *)
ENOMEM == 12
ENAMETOOLONG == 36

(* ---- value spaces ---- *)
NULL == "NULL"
Files == {"A", "B"}
Pids == {1, 2}
Faulters == {"f1", "f2"}
\* fault threads are interchangeable: a new call runs on the idle thread of lowest rank
FaulterRank(f) == IF f = "f1" THEN 1 ELSE 2
Ctl == "ctl"
None == "none"
TargetIds == 1 .. MaxTargets
ListHead == 0
NoRet == <<>>
PidSeqs == {<<1>>, <<2>>, <<1, 2>>}
Uninit == [file |-> "?", offset |-> 0, time |-> 0]
Garbage == [file |-> "#", offset |-> 0, time |-> 0]

VARIABLES
  smra_enable,        \* static bool smra_enable
  smra_targets_list,  \* LIST_HEAD(smra_targets_list): target ids in list order
  targets,            \* memory of each struct smra_target (pid, buf_lock, buf)
  allocd,             \* target ids currently allocated (kmalloc'ed, not kfree'd)
  smra_rwlock,        \* DEFINE_RWLOCK(smra_rwlock): readers and writer
  refs,               \* per file: get_file() calls minus fput() calls made by SMRA
  clock,              \* monotonic clock read by ktime_get()
  fpc, ffile, fpgoff, ftgid, ftarget,   \* rvh_do_read_fault: position, arguments, locals
  cpc, cop, ci, ctarget, cnew, cret,    \* control thread: position, call, locals, return value
  ppbuf, ppalloc, footprints,           \* smra_post_processing: buf, its allocated length, output lists
  md_alloc, md_free,                    \* metadata objects allocated / freed by the current call
  nfaults, nops,                        \* number of fault calls / control calls made so far
  hist,               \* per target: faults that took buf_lock, in lock order
  pre_list, pre_targets,                \* registry and targets when the current setup was called
  pre_enable,         \* smra_enable when the current smra_start or smra_stop was called
  stopped, fstopped,  \* smra_stop has returned and smra_start not called since; per fault call, at entry
  snaps, snap_mid,    \* source buffers at the instant of each copy of this call; an append was half done at one
  vdroop_reg, read_err,                 \* max77779: the VDROOP_INT register; errno of the register read (0: none)
  vdroop_int, irq_val_in, irq_val, bcl_ret,   \* max77779_get_irq: local as read, *irq_val at the call and after, return value
  mm_hint_enable, mm_hint_mode,         \* pixel_mm_hint: the two atomic_long_t
  mm_op, mm_val, mm_ret, mm_accepted    \* last mm-hint call, its argument and result; last mode a mode_set accepted

rec   == <<smra_enable, smra_targets_list, targets, allocd, refs>>
fvars == <<fpc, ffile, fpgoff, ftgid, ftarget, fstopped, nfaults>>
cvars == <<cpc, cop, ci, ctarget, cnew, cret, nops, pre_list, pre_targets, pre_enable, stopped>>
pvars == <<ppbuf, ppalloc, footprints, md_alloc, md_free, snaps, snap_mid>>
bclvars == <<vdroop_reg, read_err, vdroop_int, irq_val_in, irq_val, bcl_ret>>
mmvars == <<mm_hint_enable, mm_hint_mode, mm_op, mm_val, mm_ret, mm_accepted>>
vars  == <<smra_enable, smra_targets_list, targets, allocd, smra_rwlock, refs, clock,
           fpc, ffile, fpgoff, ftgid, ftarget,
           cpc, cop, ci, ctarget, cnew, cret,
           ppbuf, ppalloc, footprints, md_alloc, md_free,
           nfaults, nops, hist, pre_list, pre_targets, pre_enable, stopped, fstopped,
           snaps, snap_mid, bclvars, mmvars>>
\* the state of the SMRA core
smravars == <<rec, smra_rwlock, clock, hist, fvars, cvars, pvars>>

(* ---- helpers ---- *)
Min(a, b) == IF a < b THEN a ELSE b

\* struct smra_info_buffer after smra_buffer_setup(size)
smra_buffer_setup(size) ==
  [cur |-> 0, size |-> size, fault_info |-> [k \in 0 .. size - 1 |-> Uninit]]

NoBuffer == [cur |-> 0, size |-> 0, fault_info |-> [k \in 0 .. -1 |-> Uninit]]
NoTargetMem == [pid |-> 0, buf_lock |-> None, buf |-> NoBuffer]
NoOp == [name |-> "none", pids |-> <<>>, size |-> 0]

\* rwlock_t: read_lock succeeds when no writer holds it, write_lock when nobody
\* does.  A reader is let in while a writer waits, which allows every order
\* of acquisition the kernel's lock allows.
CanReadLock == smra_rwlock.writer = None
\* variant of CanWriteLock: readers are not waited for
CanWriteLock_readers == smra_rwlock.writer = None

CanWriteLock == smra_rwlock.writer = None /\ smra_rwlock.readers = {}
read_lock(th) == [smra_rwlock EXCEPT !.readers = @ \cup {th}]
read_unlock(th) == [smra_rwlock EXCEPT !.readers = @ \ {th}]
write_lock(th) == [smra_rwlock EXCEPT !.writer = th]
write_unlock(th) == [smra_rwlock EXCEPT !.writer = None]

\* variant of find_in: the pid is not compared
find_in_anypid(lst, pid) == IF lst = <<>> THEN ListHead ELSE Head(lst)

\* find_target: first list entry whose pid matches, NULL (ListHead) if none
RECURSIVE find_in(_, _)
find_in(lst, pid) ==
  IF lst = <<>> THEN ListHead
  ELSE IF targets[Head(lst)].pid = pid THEN Head(lst)
  ELSE find_in(Tail(lst), pid)

find_target(pid) == find_in(smra_targets_list, pid)

\* list_del: the list without entry t
RECURSIVE list_del(_, _)
list_del(lst, t) ==
  IF lst = <<>> THEN <<>>
  ELSE IF Head(lst) = t THEN Tail(lst)
  ELSE <<Head(lst)>> \o list_del(Tail(lst), t)

\* first entry of a list, or the list head when it is empty
list_first(lst) == IF lst = <<>> THEN ListHead ELSE lst[1]

\* entry after t, or the list head when t is last
list_next(lst, t) ==
  LET idx == CHOOSE k \in 1 .. Len(lst) : lst[k] = t
  IN IF idx = Len(lst) THEN ListHead ELSE lst[idx + 1]

InList(lst, t) == \E k \in 1 .. Len(lst) : lst[k] = t

\* variant of FaultFiltered: the enable flag is not tested
FaultFiltered_noenable(file) == file = NULL

\* the "!smra_enable || !file" test of rvh_do_read_fault
FaultFiltered(file) == ~smra_enable \/ file = NULL

\* variant of ktime_get: a clock that can be set back between two reads
ktime_get_real == IF clock <= 1 THEN clock + 2 ELSE clock - 1

\* ktime_get(): the monotonic clock has advanced since it was last read
ktime_get == clock + 1

\* variant of BufferFull: "cur > size"
BufferFull_offbyone(buf) == buf.cur > buf.size

\* the "cur >= size" test of rvh_do_read_fault
BufferFull(buf) == buf.cur >= buf.size

Init ==
  /\ smra_enable = FALSE
  /\ smra_targets_list = <<>>
  /\ targets = [t \in TargetIds |-> NoTargetMem]
  /\ allocd = {}
  /\ smra_rwlock = [readers |-> {}, writer |-> None]
  /\ refs = [h \in Files |-> 0]
  /\ clock = 0
  /\ fpc = [f \in Faulters |-> "idle"]
  /\ ffile = [f \in Faulters |-> NULL]
  /\ fpgoff = [f \in Faulters |-> 0]
  /\ ftgid = [f \in Faulters |-> 0]
  /\ ftarget = [f \in Faulters |-> ListHead]
  /\ cpc = "idle"
  /\ cop = NoOp
  /\ ci = 0
  /\ ctarget = ListHead
  /\ cnew = ListHead
  /\ cret = NoRet
  /\ ppbuf = NoBuffer
  /\ ppalloc = 0
  /\ footprints = <<>>
  /\ md_alloc = 0
  /\ md_free = 0
  /\ nfaults = 0
  /\ nops = 0
  /\ hist = [t \in TargetIds |-> <<>>]
  /\ pre_list = <<>>
  /\ pre_targets = [t \in TargetIds |-> NoTargetMem]
  /\ pre_enable = FALSE
  /\ stopped = FALSE
  /\ fstopped = [f \in Faulters |-> FALSE]
  /\ snaps = <<>>
  /\ snap_mid = FALSE
  /\ vdroop_reg = {}
  /\ read_err = 0
  /\ vdroop_int = {}
  /\ irq_val_in = "UVLO1"
  /\ irq_val = "UVLO1"
  /\ bcl_ret = NoRet
  /\ mm_hint_enable = 0
  /\ mm_hint_mode = 0
  /\ mm_op = "none"
  /\ mm_val = <<>>
  /\ mm_ret = NoRet
  /\ mm_accepted = 0

(* ======================= rvh_do_read_fault ======================= *)

\* entry, read_lock(&smra_rwlock), then
\* if (!smra_enable || !file) goto out; target = find_target(tgid); if (!target) goto out.
\* Nothing the tests read can change between the read_lock and the tests.
\* Each fault carries a page offset of its own.
FaultEnter(f) ==
  /\ fpc[f] = "idle"
  /\ nfaults < MaxFaults
  /\ \A g \in Faulters : fpc[g] = "idle" => FaulterRank(f) <= FaulterRank(g)
  /\ CanReadLock
  /\ smra_rwlock' = read_lock(f)
  /\ \E file \in Files \cup {NULL}, tgid \in Pids :
       /\ ffile' = [ffile EXCEPT ![f] = file]
       /\ ftgid' = [ftgid EXCEPT ![f] = tgid]
       /\ IF FaultFiltered(file)
            THEN /\ fpc' = [fpc EXCEPT ![f] = "out"]
                 /\ ftarget' = [ftarget EXCEPT ![f] = ListHead]
            ELSE LET t == find_target(tgid)
                 IN /\ ftarget' = [ftarget EXCEPT ![f] = t]
                    /\ fpc' = [fpc EXCEPT ![f] = IF t = ListHead THEN "out" ELSE "spin"]
  /\ fpgoff' = [fpgoff EXCEPT ![f] = nfaults + 1]
  /\ nfaults' = nfaults + 1
  /\ fstopped' = [fstopped EXCEPT ![f] = stopped]
  /\ UNCHANGED <<rec, clock, hist, cvars, pvars>>
  /\ UNCHANGED <<bclvars, mmvars>>

\* variant of FaultSpinLock: the append goes on without waiting for buf_lock
FaultSpinLock_nowait(f) ==
  /\ fpc[f] = "spin"
  /\ targets' = [targets EXCEPT ![ftarget[f]].buf_lock = f]
  /\ hist' = [hist EXCEPT ![ftarget[f]] =
                Append(@, [file |-> ffile[f], offset |-> fpgoff[f]])]
  /\ fpc' = [fpc EXCEPT ![f] = "store"]
  /\ UNCHANGED <<smra_enable, smra_targets_list, allocd, refs, smra_rwlock, clock,
                 ffile, fpgoff, ftgid, ftarget, fstopped, nfaults, cvars, pvars>>
  /\ UNCHANGED <<bclvars, mmvars>>

\* spin_lock(&target->buf_lock)
FaultSpinLock(f) ==
  /\ fpc[f] = "spin"
  /\ targets[ftarget[f]].buf_lock = None
  /\ targets' = [targets EXCEPT ![ftarget[f]].buf_lock = f]
  /\ hist' = [hist EXCEPT ![ftarget[f]] =
                Append(@, [file |-> ffile[f], offset |-> fpgoff[f]])]
  /\ fpc' = [fpc EXCEPT ![f] = "store"]
  /\ UNCHANGED <<smra_enable, smra_targets_list, allocd, refs, smra_rwlock, clock,
                 ffile, fpgoff, ftgid, ftarget, fstopped, nfaults, cvars, pvars>>
  /\ UNCHANGED <<bclvars, mmvars>>

\* variant of FaultStore: the record is written to the first slot
FaultStore_first(f) ==
  /\ fpc[f] = "store"
  /\ LET t == ftarget[f]
         buf == targets[t].buf
     IN IF BufferFull(buf)
          THEN /\ targets' = [targets EXCEPT ![t].buf_lock = None]
               /\ fpc' = [fpc EXCEPT ![f] = "out"]
               /\ UNCHANGED <<refs, clock>>
          ELSE LET now == ktime_get
               IN
               /\ refs' = [refs EXCEPT ![ffile[f]] = @ + 1]
               /\ clock' = now
               /\ targets' = [targets EXCEPT ![t].buf.fault_info =
                    IF 0 \in DOMAIN @
                      THEN [@ EXCEPT ![0] =
                              [file |-> ffile[f], offset |-> fpgoff[f], time |-> now]]
                      ELSE @]
               /\ fpc' = [fpc EXCEPT ![f] = "inc"]
  /\ UNCHANGED <<smra_enable, smra_targets_list, allocd, smra_rwlock, hist,
                 ffile, fpgoff, ftgid, ftarget, fstopped, nfaults, cvars, pvars>>
  /\ UNCHANGED <<bclvars, mmvars>>

\* full: spin_unlock, goto out.  Otherwise get_file(file) and fault_info[cur] = {file, pgoff, ktime_get()}
FaultStore(f) ==
  /\ fpc[f] = "store"
  /\ LET t == ftarget[f]
         buf == targets[t].buf
     IN IF BufferFull(buf)
          THEN /\ targets' = [targets EXCEPT ![t].buf_lock = None]
               /\ fpc' = [fpc EXCEPT ![f] = "out"]
               /\ UNCHANGED <<refs, clock>>
          ELSE LET now == ktime_get
               IN
               /\ refs' = [refs EXCEPT ![ffile[f]] = @ + 1]
               /\ clock' = now
               /\ targets' = [targets EXCEPT ![t].buf.fault_info =
                    IF buf.cur \in DOMAIN @
                      THEN [@ EXCEPT ![buf.cur] =
                              [file |-> ffile[f], offset |-> fpgoff[f], time |-> now]]
                      ELSE @]
               /\ fpc' = [fpc EXCEPT ![f] = "inc"]
  /\ UNCHANGED <<smra_enable, smra_targets_list, allocd, smra_rwlock, hist,
                 ffile, fpgoff, ftgid, ftarget, fstopped, nfaults, cvars, pvars>>
  /\ UNCHANGED <<bclvars, mmvars>>

\* target->buf->cur++; spin_unlock(&target->buf_lock)
FaultInc(f) ==
  /\ fpc[f] = "inc"
  /\ targets' = [targets EXCEPT ![ftarget[f]].buf.cur = @ + 1,
                                ![ftarget[f]].buf_lock = None]
  /\ fpc' = [fpc EXCEPT ![f] = "out"]
  /\ UNCHANGED <<smra_enable, smra_targets_list, allocd, refs, smra_rwlock, clock, hist,
                 ffile, fpgoff, ftgid, ftarget, fstopped, nfaults, cvars, pvars>>
  /\ UNCHANGED <<bclvars, mmvars>>

\* out: read_unlock(&smra_rwlock); return
FaultOut(f) ==
  /\ fpc[f] = "out"
  /\ smra_rwlock' = read_unlock(f)
  /\ fpc' = [fpc EXCEPT ![f] = "idle"]
  /\ ffile' = [ffile EXCEPT ![f] = NULL]
  /\ fpgoff' = [fpgoff EXCEPT ![f] = 0]
  /\ ftgid' = [ftgid EXCEPT ![f] = 0]
  /\ ftarget' = [ftarget EXCEPT ![f] = ListHead]
  /\ fstopped' = [fstopped EXCEPT ![f] = FALSE]
  /\ UNCHANGED <<rec, clock, hist, nfaults, cvars, pvars>>
  /\ UNCHANGED <<bclvars, mmvars>>

rvh_do_read_fault(f) ==
  \/ FaultEnter(f)
  \/ FaultSpinLock(f)
  \/ FaultStore(f)
  \/ FaultInc(f)
  \/ FaultOut(f)

(* ======================= control thread ======================= *)

\* return from the current call
Return(code) ==
  /\ cpc' = "idle"
  /\ cret' = <<code>>

\* the caller (sysfs/procfs handler) invokes one operation with its arguments
Call ==
  /\ cpc = "idle"
  /\ nops < MaxOps
  /\ nops' = nops + 1
  /\ cret' = NoRet
  /\ ci' = 0
  /\ ctarget' = ListHead
  /\ cnew' = ListHead
  /\ ppbuf' = NoBuffer
  /\ ppalloc' = 0
  /\ md_alloc' = 0
  /\ md_free' = 0
  /\ snaps' = <<>>
  /\ snap_mid' = FALSE
  /\ \E name \in {"setup", "start", "stop", "reset", "post_processing"} :
       /\ IF name \in {"setup", "post_processing"}
            THEN \E pids \in PidSeqs, size \in 1 .. MaxSize :
                   cop' = [name |-> name, pids |-> pids, size |-> size]
            ELSE cop' = [name |-> name, pids |-> <<>>, size |-> 0]
       /\ cpc' = CASE name = "setup" -> "setup_alloc"
                   [] name = "start" -> "start_lock"
                   [] name = "stop" -> "stop_lock"
                   [] name = "reset" -> "reset_lock"
                   [] OTHER -> "pp_alloc"
       /\ footprints' = IF name = "post_processing"
                          THEN [k \in 1 .. Len(cop'.pids) |-> <<>>]
                          ELSE <<>>
       /\ stopped' = IF name = "start" THEN FALSE ELSE stopped
       /\ pre_list' = IF name = "setup" THEN smra_targets_list ELSE <<>>
       /\ pre_targets' = IF name = "setup" THEN targets
                          ELSE [t \in TargetIds |-> NoTargetMem]
       /\ pre_enable' = IF name \in {"start", "stop"} THEN smra_enable ELSE FALSE
  /\ UNCHANGED <<rec, smra_rwlock, clock, hist, fvars>>
  /\ UNCHANGED <<bclvars, mmvars>>

\* write_lock(&smra_rwlock) of smra_start, smra_stop, smra_reset, smra_setup
WriteLock(from, to) ==
  /\ cpc = from
  /\ CanWriteLock
  /\ smra_rwlock' = write_lock(Ctl)
  /\ cpc' = to
  /\ UNCHANGED <<rec, clock, hist, fvars, pvars,
                 cop, ci, ctarget, cnew, cret, nops, pre_list, pre_targets, pre_enable, stopped>>
  /\ UNCHANGED <<bclvars, mmvars>>

StartLock == WriteLock("start_lock", "start_set")
StopLock == WriteLock("stop_lock", "stop_set")
ResetLock == WriteLock("reset_lock", "reset_body")
SetupLock == WriteLock("setup_lock", "setup_add")

\* variant of smra_start: the flag is flipped
smra_start_flips ==
  /\ cpc = "start_set"
  /\ smra_enable' = ~smra_enable
  /\ smra_rwlock' = write_unlock(Ctl)
  /\ Return(0)
  /\ UNCHANGED <<smra_targets_list, targets, allocd, refs, clock, hist, fvars, pvars,
                 cop, ci, ctarget, cnew, nops, pre_list, pre_targets, pre_enable, stopped>>
  /\ UNCHANGED <<bclvars, mmvars>>

\* smra_enable = true; write_unlock
smra_start ==
  /\ cpc = "start_set"
  /\ smra_enable' = TRUE
  /\ smra_rwlock' = write_unlock(Ctl)
  /\ Return(0)
  /\ UNCHANGED <<smra_targets_list, targets, allocd, refs, clock, hist, fvars, pvars,
                 cop, ci, ctarget, cnew, nops, pre_list, pre_targets, pre_enable, stopped>>
  /\ UNCHANGED <<bclvars, mmvars>>

\* variant of smra_stop: the flag is set as in smra_start
smra_stop_sets ==
  /\ cpc = "stop_set"
  /\ smra_enable' = TRUE
  /\ smra_rwlock' = write_unlock(Ctl)
  /\ Return(0)
  /\ stopped' = TRUE
  /\ UNCHANGED <<smra_targets_list, targets, allocd, refs, clock, hist, fvars, pvars,
                 cop, ci, ctarget, cnew, nops, pre_list, pre_targets, pre_enable>>
  /\ UNCHANGED <<bclvars, mmvars>>

\* smra_enable = false; write_unlock
smra_stop ==
  /\ cpc = "stop_set"
  /\ smra_enable' = FALSE
  /\ smra_rwlock' = write_unlock(Ctl)
  /\ Return(0)
  /\ stopped' = TRUE
  /\ UNCHANGED <<smra_targets_list, targets, allocd, refs, clock, hist, fvars, pvars,
                 cop, ci, ctarget, cnew, nops, pre_list, pre_targets, pre_enable>>
  /\ UNCHANGED <<bclvars, mmvars>>

\* number of records [0, cur) of buffer buf that hold file h
RECURSIVE RecordsOf(_, _, _)
RecordsOf(buf, h, n) ==
  IF n = 0 THEN 0
  ELSE (IF buf.fault_info[n - 1].file = h THEN 1 ELSE 0) + RecordsOf(buf, h, n - 1)

\* fput() calls on file h made by destroying the targets of list lst with their records
RECURSIVE FputAll(_, _)
FputAll(lst, h) ==
  IF lst = <<>> THEN 0
  ELSE RecordsOf(targets[Head(lst)].buf, h, targets[Head(lst)].buf.cur)
       + FputAll(Tail(lst), h)

\* list_for_each_entry_safe: fput every record, free the buffer, unlink and free the target
smra_reset ==
  /\ cpc = "reset_body"
  /\ refs' = [h \in Files |-> refs[h] - FputAll(smra_targets_list, h)]
  /\ targets' = [t \in TargetIds |->
                   IF InList(smra_targets_list, t) THEN NoTargetMem ELSE targets[t]]
  /\ allocd' = {t \in allocd : ~InList(smra_targets_list, t)}
  /\ hist' = [t \in TargetIds |->
                IF InList(smra_targets_list, t) THEN <<>> ELSE hist[t]]
  /\ smra_targets_list' = <<>>
  /\ smra_rwlock' = write_unlock(Ctl)
  /\ Return(0)
  /\ UNCHANGED <<smra_enable, clock, fvars, pvars,
                 cop, ci, ctarget, cnew, nops, pre_list, pre_targets, pre_enable, stopped>>
  /\ UNCHANGED <<bclvars, mmvars>>

(* ---- smra_setup ---- *)

\* loop head: i < nr_targets; kmalloc of the target and smra_buffer_setup, either may fail
SetupAlloc ==
  /\ cpc = "setup_alloc"
  /\ IF ci >= Len(cop.pids)
       THEN /\ Return(0)
            /\ UNCHANGED <<targets, allocd, cnew, hist>>
       ELSE \/ /\ cpc' = "setup_cleanup_lock"
               /\ UNCHANGED <<targets, allocd, cnew, cret, hist>>
            \/ /\ allocd # TargetIds
               /\ LET t == CHOOSE x \in TargetIds \ allocd :
                             \A y \in TargetIds \ allocd : x <= y
                  IN /\ targets' = [targets EXCEPT ![t] =
                          [pid |-> cop.pids[ci + 1], buf_lock |-> None,
                           buf |-> smra_buffer_setup(cop.size)]]
                     /\ allocd' = allocd \cup {t}
                     /\ hist' = [hist EXCEPT ![t] = <<>>]
                     /\ cnew' = t
               /\ cpc' = "setup_lock"
               /\ UNCHANGED cret
  /\ UNCHANGED <<smra_enable, smra_targets_list, refs, smra_rwlock, clock, fvars, pvars,
                 cop, ci, ctarget, nops, pre_list, pre_targets, pre_enable, stopped>>
  /\ UNCHANGED <<bclvars, mmvars>>

\* variant of SetupAdd: the target is added at the front of the list (list_add)
SetupAdd_front ==
  /\ cpc = "setup_add"
  /\ smra_targets_list' = <<cnew>> \o smra_targets_list
  /\ smra_rwlock' = write_unlock(Ctl)
  /\ ci' = ci + 1
  /\ cpc' = "setup_alloc"
  /\ UNCHANGED <<smra_enable, targets, allocd, refs, clock, hist, fvars, pvars,
                 cop, ctarget, cnew, cret, nops, pre_list, pre_targets, pre_enable, stopped>>
  /\ UNCHANGED <<bclvars, mmvars>>

\* list_add_tail(&target->list, &smra_targets_list); write_unlock; i++
SetupAdd ==
  /\ cpc = "setup_add"
  /\ smra_targets_list' = Append(smra_targets_list, cnew)
  /\ smra_rwlock' = write_unlock(Ctl)
  /\ ci' = ci + 1
  /\ cpc' = "setup_alloc"
  /\ UNCHANGED <<smra_enable, targets, allocd, refs, clock, hist, fvars, pvars,
                 cop, ctarget, cnew, cret, nops, pre_list, pre_targets, pre_enable, stopped>>
  /\ UNCHANGED <<bclvars, mmvars>>

\* cleanup: write_lock; list_for_each_entry starts at the first entry
SetupCleanupLock ==
  /\ cpc = "setup_cleanup_lock"
  /\ CanWriteLock
  /\ smra_rwlock' = write_lock(Ctl)
  /\ ctarget' = list_first(smra_targets_list)
  /\ cpc' = "setup_cleanup"
  /\ UNCHANGED <<rec, clock, hist, fvars, pvars,
                 cop, ci, cnew, cret, nops, pre_list, pre_targets, pre_enable, stopped>>
  /\ UNCHANGED <<bclvars, mmvars>>

\* One iteration of the cleanup loop.  The body unlinks the target and frees
\* its buffer and itself (no fput of its records); list_for_each_entry then
\* advances through target->list.next, a field of the object just freed
\* (and poisoned by list_del): the value read is indeterminate.  It may be
\* the list head (the loop ends), any entry still linked (the loop goes
\* on from there), or an invalid pointer (the kernel oopses with the write
\* lock held).
SetupCleanup ==
  /\ cpc = "setup_cleanup"
  /\ IF ctarget = ListHead
       THEN /\ smra_rwlock' = write_unlock(Ctl)
            /\ Return(0 - ENOMEM)
            /\ UNCHANGED <<smra_targets_list, targets, allocd, hist, ctarget>>
       ELSE /\ smra_targets_list' = list_del(smra_targets_list, ctarget)
            /\ targets' = [targets EXCEPT ![ctarget] = NoTargetMem]
            /\ allocd' = allocd \ {ctarget}
            /\ hist' = [hist EXCEPT ![ctarget] = <<>>]
            /\ \/ /\ \E nxt \in {ListHead} \cup
                               {smra_targets_list'[k] : k \in 1 .. Len(smra_targets_list')} :
                       ctarget' = nxt
                  /\ UNCHANGED <<cpc, cret>>
               \/ /\ cpc' = "oops"
                  /\ UNCHANGED <<ctarget, cret>>
            /\ UNCHANGED smra_rwlock
  /\ UNCHANGED <<smra_enable, refs, clock, fvars, pvars,
                 cop, ci, cnew, nops, pre_list, pre_targets, pre_enable, stopped>>
  /\ UNCHANGED <<bclvars, mmvars>>

smra_setup ==
  \/ SetupAlloc
  \/ SetupLock
  \/ SetupAdd
  \/ SetupCleanupLock
  \/ SetupCleanup

(* ======================= smra_post_processing ======================= *)

\* dst after smra_buffer_copy(dst, src): cur and size are taken from src and
\* src->size records are copied, whatever length dst was allocated with
smra_buffer_copy(dst, src) ==
  [cur |-> src.cur,
   size |-> src.size,
   fault_info |-> [k \in (DOMAIN dst.fault_info) \cup (DOMAIN src.fault_info) |->
                     IF k \in DOMAIN src.fault_info
                       THEN src.fault_info[k] ELSE dst.fault_info[k]]]

\* d_path(&info->file->f_path, ...): the path string of a file
d_path(file) == <<"/", file>>

\* struct smra_metadata built by new_metadata_from_info
new_metadata_from_info(info) ==
  [path |-> d_path(info.file), offset |-> info.offset, time |-> info.time]

\* what do_post_processing can read from records [0, cur) of the working
\* buffer: a record inside the allocation is read as copied; one past the
\* end of the allocation lies in foreign memory and is read as copied or
\* as whatever the owner of that memory has put there since
ReadViews(buf, alloc) ==
  {v \in [0 .. buf.cur - 1 -> {buf.fault_info[k] : k \in 0 .. buf.cur - 1} \cup {Garbage}] :
     \A k \in 0 .. buf.cur - 1 :
       IF k < alloc THEN v[k] = buf.fault_info[k]
       ELSE v[k] \in {buf.fault_info[k], Garbage}}

\* the metadata of records [0, n) of view v, in order
RECURSIVE MetadataOf(_, _)
MetadataOf(v, n) ==
  IF n = 0 THEN <<>>
  ELSE Append(MetadataOf(v, n - 1), new_metadata_from_info(v[n - 1]))

\* variant of smra_post_processing_cleanup: the last list is left out
smra_post_processing_cleanup_short(fp, n) ==
  [k \in DOMAIN fp |-> IF k < n THEN <<>> ELSE fp[k]]

\* footprints after smra_post_processing_cleanup(footprints, n): lists 0 .. n-1 emptied
smra_post_processing_cleanup(fp, n) ==
  [k \in DOMAIN fp |-> IF k <= n THEN <<>> ELSE fp[k]]

\* number of metadata objects on the first n lists
RECURSIVE OnLists(_, _)
OnLists(fp, n) == IF n = 0 THEN 0 ELSE Len(fp[n]) + OnLists(fp, n - 1)

\* buf = smra_buffer_setup(buffer_size); if (!buf) return -ENOMEM
PPAlloc ==
  /\ cpc = "pp_alloc"
  /\ \/ /\ Return(0 - ENOMEM)
        /\ UNCHANGED <<ppbuf, ppalloc>>
     \/ /\ ppbuf' = smra_buffer_setup(cop.size)
        /\ ppalloc' = cop.size
        /\ cpc' = "pp_rlock"
        /\ UNCHANGED cret
  /\ UNCHANGED <<rec, smra_rwlock, clock, hist, fvars, footprints, md_alloc, md_free,
                 snaps, snap_mid, cop, ci, ctarget, cnew, nops, pre_list,
                 pre_targets, pre_enable, stopped>>
  /\ UNCHANGED <<bclvars, mmvars>>

\* read_lock(&smra_rwlock) before the loop; the iterator starts at the first entry
PPReadLock ==
  /\ cpc = "pp_rlock"
  /\ CanReadLock
  /\ smra_rwlock' = read_lock(Ctl)
  /\ ctarget' = list_first(smra_targets_list)
  /\ cpc' = "pp_iter"
  /\ UNCHANGED <<rec, clock, hist, fvars, pvars,
                 cop, ci, cnew, cret, nops, pre_list, pre_targets, pre_enable, stopped>>
  /\ UNCHANGED <<bclvars, mmvars>>

\* loop test, then BUG_ON(i >= nr_targets); BUG_ON(target->pid != target_pids[i])
PPIter ==
  /\ cpc = "pp_iter"
  /\ IF ctarget = ListHead
       THEN /\ smra_rwlock' = read_unlock(Ctl)
            /\ Return(0)
       ELSE /\ cpc' = IF ci >= Len(cop.pids) \/ targets[ctarget].pid # cop.pids[ci + 1]
                        THEN "BUG" ELSE "pp_spin"
            /\ UNCHANGED <<smra_rwlock, cret>>
  /\ UNCHANGED <<rec, clock, hist, fvars, pvars,
                 cop, ci, ctarget, cnew, nops, pre_list, pre_targets, pre_enable, stopped>>
  /\ UNCHANGED <<bclvars, mmvars>>

\* variant of PPSpinLock: the copy is made without taking buf_lock
PPSpinLock_nolock ==
  /\ cpc = "pp_spin"
  /\ cpc' = "pp_copy"
  /\ UNCHANGED <<rec, smra_rwlock, clock, hist,
                 fvars, pvars, cop, ci, ctarget, cnew, cret, nops, pre_list,
                 pre_targets, pre_enable, stopped>>
  /\ UNCHANGED <<bclvars, mmvars>>

\* spin_lock(&target->buf_lock)
PPSpinLock ==
  /\ cpc = "pp_spin"
  /\ targets[ctarget].buf_lock = None
  /\ targets' = [targets EXCEPT ![ctarget].buf_lock = Ctl]
  /\ cpc' = "pp_copy"
  /\ UNCHANGED <<smra_enable, smra_targets_list, allocd, refs, smra_rwlock, clock, hist,
                 fvars, pvars, cop, ci, ctarget, cnew, cret, nops, pre_list,
                 pre_targets, pre_enable, stopped>>
  /\ UNCHANGED <<bclvars, mmvars>>

\* variant of PPCopy: the copy empties the source buffer
PPCopy_drains ==
  /\ cpc = "pp_copy"
  /\ ppbuf' = smra_buffer_copy(ppbuf, targets[ctarget].buf)
  /\ snaps' = Append(snaps, targets[ctarget].buf)
  /\ snap_mid' = (snap_mid \/ \E f \in Faulters : fpc[f] = "inc" /\ ftarget[f] = ctarget)
  /\ targets' = [targets EXCEPT ![ctarget].buf_lock = None, ![ctarget].buf.cur = 0]
  /\ cpc' = "pp_runlock"
  /\ UNCHANGED <<smra_enable, smra_targets_list, allocd, refs, smra_rwlock, clock, hist,
                 fvars, ppalloc, footprints, md_alloc, md_free,
                 cop, ci, ctarget, cnew, cret, nops, pre_list, pre_targets, pre_enable, stopped>>
  /\ UNCHANGED <<bclvars, mmvars>>

\* smra_buffer_copy(buf, target->buf); spin_unlock(&target->buf_lock)
PPCopy ==
  /\ cpc = "pp_copy"
  /\ ppbuf' = smra_buffer_copy(ppbuf, targets[ctarget].buf)
  /\ snaps' = Append(snaps, targets[ctarget].buf)
  /\ snap_mid' = (snap_mid \/ \E f \in Faulters : fpc[f] = "inc" /\ ftarget[f] = ctarget)
  /\ targets' = [targets EXCEPT ![ctarget].buf_lock = None]
  /\ cpc' = "pp_runlock"
  /\ UNCHANGED <<smra_enable, smra_targets_list, allocd, refs, smra_rwlock, clock, hist,
                 fvars, ppalloc, footprints, md_alloc, md_free,
                 cop, ci, ctarget, cnew, cret, nops, pre_list, pre_targets, pre_enable, stopped>>
  /\ UNCHANGED <<bclvars, mmvars>>

\* variant of PPReadUnlock: the registry lock is kept while records are resolved
PPReadUnlock_keeps ==
  /\ cpc = "pp_runlock"
  /\ cpc' = "pp_process"
  /\ UNCHANGED <<rec, smra_rwlock, clock, hist, fvars, pvars,
                 cop, ci, ctarget, cnew, cret, nops, pre_list, pre_targets, pre_enable, stopped>>
  /\ UNCHANGED <<bclvars, mmvars>>

\* read_unlock(&smra_rwlock)
PPReadUnlock ==
  /\ cpc = "pp_runlock"
  /\ smra_rwlock' = read_unlock(Ctl)
  /\ cpc' = "pp_process"
  /\ UNCHANGED <<rec, clock, hist, fvars, pvars,
                 cop, ci, ctarget, cnew, cret, nops, pre_list, pre_targets, pre_enable, stopped>>
  /\ UNCHANGED <<bclvars, mmvars>>

\* err = do_post_processing(buf, &footprints[i]) and the error path after it.
\* Either every record is resolved, or n records are resolved and the next
\* one fails: with -ENOMEM no metadata object was allocated for the failing record, with
\* d_path's error one was allocated and freed again.  A failure frees
\* list i (do_post_processing's cleanup), the working buffer and lists
\* 0 .. i-1 (smra_post_processing_cleanup) and returns the error.  A
\* record read from outside the allocation may also hold a bad file
\* pointer, and d_path then oopses.
PPProcess ==
  /\ cpc = "pp_process"
  /\ \/ \E v \in ReadViews(ppbuf, ppalloc) :
          /\ footprints' = [footprints EXCEPT ![ci + 1] = @ \o MetadataOf(v, ppbuf.cur)]
          /\ md_alloc' = md_alloc + ppbuf.cur
          /\ ci' = ci + 1
          /\ cpc' = "pp_relock"
          /\ UNCHANGED <<md_free, ppbuf, ppalloc, cret>>
     \/ \E v \in ReadViews(ppbuf, ppalloc), n \in 0 .. ppbuf.cur - 1,
           err \in {ENOMEM, ENAMETOOLONG} :
          LET added == [footprints EXCEPT ![ci + 1] = @ \o MetadataOf(v, n)]
              after == smra_post_processing_cleanup([added EXCEPT ![ci + 1] = <<>>], ci)
              transient == IF err = ENAMETOOLONG THEN 1 ELSE 0
          IN /\ footprints' = after
             /\ md_alloc' = md_alloc + n + transient
             /\ md_free' = md_free + transient
                             + OnLists(added, Len(added)) - OnLists(after, Len(after))
             /\ ppbuf' = NoBuffer
             /\ ppalloc' = 0
             /\ Return(0 - err)
             /\ UNCHANGED ci
     \/ /\ ppbuf.cur > ppalloc
        /\ cpc' = "oops"
        /\ UNCHANGED <<footprints, md_alloc, md_free, ppbuf, ppalloc, cret, ci>>
  /\ UNCHANGED <<rec, smra_rwlock, clock, hist, fvars, snaps, snap_mid,
                 cop, ctarget, cnew, nops, pre_list, pre_targets, pre_enable, stopped>>
  /\ UNCHANGED <<bclvars, mmvars>>

\* read_lock(&smra_rwlock) at the end of the loop body; the iterator advances
\* through target->list.next
PPRelock ==
  /\ cpc = "pp_relock"
  /\ CanReadLock
  /\ smra_rwlock' = read_lock(Ctl)
  /\ IF InList(smra_targets_list, ctarget)
       THEN /\ ctarget' = list_next(smra_targets_list, ctarget)
            /\ cpc' = "pp_iter"
       ELSE /\ cpc' = "oops"
            /\ UNCHANGED ctarget
  /\ UNCHANGED <<rec, clock, hist, fvars, pvars,
                 cop, ci, cnew, cret, nops, pre_list, pre_targets, pre_enable, stopped>>
  /\ UNCHANGED <<bclvars, mmvars>>

smra_post_processing ==
  \/ PPAlloc
  \/ PPReadLock
  \/ PPIter
  \/ PPSpinLock
  \/ PPCopy
  \/ PPReadUnlock
  \/ PPProcess
  \/ PPRelock

(* ======================= specification ======================= *)

Next ==
  \/ \E f \in Faulters : rvh_do_read_fault(f)
  \/ Call
  \/ StartLock
  \/ smra_start
  \/ StopLock
  \/ smra_stop
  \/ ResetLock
  \/ smra_reset
  \/ smra_setup
  \/ smra_post_processing

Spec == Init /\ [][Next]_vars

(* ---- smra_reset called beside the control thread ---- *)

\* Nothing but smra_rwlock orders smra_reset against a running
\* smra_post_processing: a second caller of the control interface can run
\* smra_reset while the control thread is inside another operation.
Racer == "rst"

\* write_lock(&smra_rwlock) of that smra_reset
RaceResetLock ==
  /\ CanWriteLock
  /\ smra_rwlock' = write_lock(Racer)
  /\ UNCHANGED <<rec, clock, hist, fvars, cvars, pvars>>
  /\ UNCHANGED <<bclvars, mmvars>>

\* its loop (fput every record, free the buffer, unlink and free the target) and write_unlock
RaceReset ==
  /\ smra_rwlock.writer = Racer
  /\ refs' = [h \in Files |-> refs[h] - FputAll(smra_targets_list, h)]
  /\ targets' = [t \in TargetIds |->
                   IF InList(smra_targets_list, t) THEN NoTargetMem ELSE targets[t]]
  /\ allocd' = {t \in allocd : ~InList(smra_targets_list, t)}
  /\ hist' = [t \in TargetIds |->
                IF InList(smra_targets_list, t) THEN <<>> ELSE hist[t]]
  /\ smra_targets_list' = <<>>
  /\ smra_rwlock' = write_unlock(Racer)
  /\ UNCHANGED <<smra_enable, clock, fvars, cvars, pvars>>
  /\ UNCHANGED <<bclvars, mmvars>>

NextRace ==
  \/ Next
  \/ RaceResetLock
  \/ RaceReset

SpecRace == Init /\ [][NextRace]_vars

(* ======================= properties ======================= *)

\* records of the targets on list lst that hold file h
RECURSIVE LiveRecords(_, _)
LiveRecords(lst, h) ==
  IF lst = <<>> THEN 0
  ELSE RecordsOf(targets[Head(lst)].buf, h, targets[Head(lst)].buf.cur)
       + LiveRecords(Tail(lst), h)

\* appends that have taken their reference and written their slot but not yet moved the cursor
InFlight(h) == Cardinality({f \in Faulters : fpc[f] = "inc" /\ ffile[f] = h})

\* a fault thread is inside the buf_lock section of target t
Appending(t) == \E f \in Faulters : fpc[f] \in {"store", "inc"} /\ ftarget[f] = t

Returned(name) == cop.name = name /\ cpc = "idle" /\ cret # NoRet

\* C1: in every reachable state the references SMRA holds on each file equal
\* the records of the registered targets that hold it (an append between its
\* get_file and its cursor increment counted as a record).
C1_RefsMatchLiveRecords ==
  \A h \in Files : refs[h] = LiveRecords(smra_targets_list, h) + InFlight(h)

\* C2: a registered target's buffer holds the first min(capacity, N) of the N
\* faults that took its lock, in lock order; none is overwritten.
C2_FirstCKept ==
  \A k \in 1 .. Len(smra_targets_list) :
    LET t == smra_targets_list[k]
        buf == targets[t].buf
        arrived == Len(hist[t]) - (IF Appending(t) THEN 1 ELSE 0)
    IN /\ buf.cur = Min(buf.size, arrived)
       /\ \A j \in 0 .. buf.cur - 1 :
            /\ buf.fault_info[j].file = hist[t][j + 1].file
            /\ buf.fault_info[j].offset = hist[t][j + 1].offset

\* a full buffer whose target has seen more faults than its capacity
C2_Witness ==
  \E k \in 1 .. Len(smra_targets_list) :
    LET t == smra_targets_list[k]
    IN /\ targets[t].buf.cur = targets[t].buf.size
       /\ Len(hist[t]) > targets[t].buf.size
       /\ ~Appending(t)

\* C3: while smra_enable is false no step of a fault call changes a target,
\* the registry or a reference count.
C3_DisabledFaultsRecordNothing ==
  [][(~smra_enable /\ fpc' # fpc) =>
       (targets' = targets /\ smra_targets_list' = smra_targets_list /\ refs' = refs)]_vars

\* a fault call made while disabled that the other tests would have let through
C3_Witness ==
  /\ ~smra_enable
  /\ \E f \in Faulters :
       /\ fpc[f] = "out"
       /\ ffile[f] # NULL
       /\ \E k \in 1 .. Len(smra_targets_list) :
            /\ targets[smra_targets_list[k]].pid = ftgid[f]
            /\ targets[smra_targets_list[k]].buf.cur < targets[smra_targets_list[k]].buf.size

\* C4: a fault call that begins after smra_stop has returned and before the
\* next smra_start is called goes straight to its exit without a target.
C4_NoAppendAfterStop ==
  \A f \in Faulters : fstopped[f] => (fpc[f] = "out" /\ ftarget[f] = ListHead)

\* such a call for a tracked pid whose buffer holds records and has room
C4_Witness ==
  \E f \in Faulters :
    /\ fstopped[f]
    /\ ffile[f] # NULL
    /\ \E k \in 1 .. Len(smra_targets_list) :
         LET t == smra_targets_list[k]
         IN /\ targets[t].pid = ftgid[f]
            /\ targets[t].buf.cur >= 1
            /\ targets[t].buf.cur < targets[t].buf.size

SetupFailed ==
  /\ cop.name = "setup"
  /\ \/ cpc = "idle" /\ cret = <<0 - ENOMEM>>
     \/ cpc = "oops"

\* C6: when smra_setup has failed the registry is the one of before the call,
\* its targets still hold their records, and no reference is held for a
\* destroyed record.
C6_FailedSetupRestoresRegistry ==
  SetupFailed =>
    /\ smra_targets_list = pre_list
    /\ \A k \in 1 .. Len(pre_list) :
         LET t == pre_list[k]
         IN /\ t \in allocd
            /\ targets[t].pid = pre_targets[t].pid
            /\ targets[t].buf.cur >= pre_targets[t].buf.cur
            /\ \A j \in 0 .. pre_targets[t].buf.cur - 1 :
                 targets[t].buf.fault_info[j] = pre_targets[t].buf.fault_info[j]
    /\ \A h \in Files : refs[h] = LiveRecords(smra_targets_list, h) + InFlight(h)

\* C7: when smra_post_processing has returned 0, list k holds one metadata
\* per record target k had at its copy, in order, with the record's offset
\* and time; the lists of the other indices are empty.
C7_MetadataPerRecord ==
  (Returned("post_processing") /\ cret = <<0>>) =>
    /\ Len(snaps) = Len(smra_targets_list)
    /\ \A k \in 1 .. Len(footprints) :
         IF k <= Len(snaps)
           THEN /\ Len(footprints[k]) = snaps[k].cur
                /\ \A j \in 1 .. Len(footprints[k]) :
                     /\ footprints[k][j].offset = snaps[k].fault_info[j - 1].offset
                     /\ footprints[k][j].time = snaps[k].fault_info[j - 1].time
           ELSE footprints[k] = <<>>

\* C8: when smra_post_processing has returned an error every output list is
\* empty and every metadata object allocated by the call has been freed.
C8_FailureRollsBack ==
  (Returned("post_processing") /\ cret[1] < 0) =>
    /\ \A k \in 1 .. Len(footprints) : footprints[k] = <<>>
    /\ md_alloc = md_free

\* a failure at a later target, after metadata had been produced
C8_Witness ==
  /\ Returned("post_processing")
  /\ cret[1] < 0
  /\ ci >= 1
  /\ md_free >= 2

\* the working buffer holds the snapshot of the target the iterator is at
HasSnapshot == cpc \in {"pp_runlock", "pp_process"}

\* C9: the snapshot has the cursor and the records [0, cursor) the source had
\* at the copy, no append was half done at a copy, and the source still
\* starts with the snapshot's records however it has grown since.
C9_SnapshotAtOneInstant ==
  /\ ~snap_mid
  /\ HasSnapshot =>
       LET src == snaps[Len(snaps)]
           now == targets[ctarget].buf
       IN /\ ppbuf.cur = src.cur
          /\ now.cur >= ppbuf.cur
          /\ \A j \in 0 .. ppbuf.cur - 1 :
               /\ ppbuf.fault_info[j] = src.fault_info[j]
               /\ ppbuf.fault_info[j] = now.fault_info[j]
               /\ ppbuf.fault_info[j] # Uninit

\* a snapshot of a buffer that has taken an append since the copy
C9_Witness ==
  /\ HasSnapshot
  /\ ppbuf.cur >= 1
  /\ targets[ctarget].buf.cur > ppbuf.cur

\* what a fault call may not touch when it records nothing
Recorded == <<smra_targets_list, allocd, refs,
              [t \in TargetIds |-> targets[t].pid], [t \in TargetIds |-> targets[t].buf]>>

\* the call of f is one that must record nothing
Dropped(f) ==
  \/ ffile[f] = NULL
  \/ \A k \in 1 .. Len(smra_targets_list) : targets[smra_targets_list[k]].pid # ftgid[f]
  \/ fpc[f] = "store" /\ targets[ftarget[f]].buf.cur = targets[ftarget[f]].buf.size

C10_Inside ==
  \A f \in Faulters :
    fpc[f] \in {"spin", "store", "inc"} =>
      /\ ffile[f] # NULL
      /\ InList(smra_targets_list, ftarget[f])
      /\ targets[ftarget[f]].pid = ftgid[f]
      /\ fpc[f] = "inc" => targets[ftarget[f]].buf.cur < targets[ftarget[f]].buf.size

\* C10: a fault call without a file, for a pid no registered target has, or
\* that finds its buffer full never enters (or goes on in) the append, and
\* its steps leave records, cursors, registry and reference counts alone.
C10_DroppedFaultIsNoOp ==
  /\ []C10_Inside
  /\ [][\A f \in Faulters :
          (fpc[f] # "idle" /\ fpc'[f] # fpc[f] /\ Dropped(f)) => Recorded' = Recorded]_vars

\* a call that found its buffer full and left it as it was
C10_Witness ==
  \E f \in Faulters :
    /\ fpc[f] = "out"
    /\ ftarget[f] # ListHead
    /\ LET t == ftarget[f]
       IN /\ targets[t].buf.cur = targets[t].buf.size
          /\ hist[t][Len(hist[t])].offset = fpgoff[f]
          /\ \A j \in 0 .. targets[t].buf.cur - 1 :
               targets[t].buf.fault_info[j].offset # fpgoff[f]

\* C11: in every reachable state no two targets of the registry have the
\* same process identifier.
C11_PidsUnique ==
  \A i, j \in 1 .. Len(smra_targets_list) :
    i # j => targets[smra_targets_list[i]].pid # targets[smra_targets_list[j]].pid

\* C12: when smra_reset has returned it has succeeded, the registry is empty
\* and recording is off (a fault is recorded again only after smra_start).
C12_ResetLeavesNotRecording ==
  Returned("reset") =>
    /\ cret = <<0>>
    /\ smra_targets_list = <<>>
    /\ ~smra_enable

\* the identifiers passed to smra_post_processing differ from the pids of the
\* registry, in some position or in their number
RegistryMismatch ==
  \/ Len(smra_targets_list) # Len(cop.pids)
  \/ \E k \in 1 .. Len(smra_targets_list) :
       k <= Len(cop.pids) /\ targets[smra_targets_list[k]].pid # cop.pids[k]

\* C13: a smra_post_processing call whose identifiers differ from the
\* registry's never returns once it has looked at the registry, neither with
\* success nor with the error of a record it could not resolve.
C13_MismatchIsFatal ==
  (Returned("post_processing") /\ (cret = <<0>> \/ snaps # <<>>)) => ~RegistryMismatch

\* C14: the step in which smra_start (smra_stop) takes effect returns
\* success with the flag true (false) and everything else recorded as it
\* was; taken when the flag already had that value at the call, it changes
\* nothing.
C14_StartStopIdempotent ==
  [][/\ (cpc = "start_set" /\ cpc' = "idle") =>
           /\ smra_enable' = TRUE
           /\ cret' = <<0>>
           /\ <<smra_targets_list, targets, allocd, refs>>' =
                <<smra_targets_list, targets, allocd, refs>>
           /\ pre_enable => rec' = rec
     /\ (cpc = "stop_set" /\ cpc' = "idle") =>
           /\ smra_enable' = FALSE
           /\ cret' = <<0>>
           /\ <<smra_targets_list, targets, allocd, refs>>' =
                <<smra_targets_list, targets, allocd, refs>>
           /\ ~pre_enable => rec' = rec]_vars

\* smra_start called twice in a row has returned for the second time
C14_Witness ==
  /\ Returned("start")
  /\ nops = 2
  /\ pre_enable
  /\ smra_enable

\* the targets the current smra_setup call has put on the list so far (the
\* list still begins with the entries it had at the call)
SetupAdded ==
  {smra_targets_list[k] : k \in Len(pre_list) + 1 .. Len(smra_targets_list)}

\* smra_setup is under way and has added some but not all of its targets
SetupPartial ==
  /\ cop.name = "setup"
  /\ cpc \in {"setup_alloc", "setup_lock", "setup_add", "setup_cleanup_lock"}
  /\ SetupAdded # {}
  /\ Cardinality(SetupAdded) < Len(cop.pids)

\* C15: no fault call works on a target it found in a registry holding some
\* but not all targets of a smra_setup call, and when a smra_setup call
\* has failed none of the targets it had added holds a record.
C15_SetupAllOrNothing ==
  /\ SetupPartial =>
       \A f \in Faulters :
         fpc[f] \in {"spin", "store", "inc"} => ftarget[f] \notin SetupAdded
  /\ (cop.name = "setup" /\ cpc = "setup_cleanup_lock") =>
       \A t \in SetupAdded : targets[t].buf.cur = 0

\* the control thread is at the write_lock of a lifecycle transition
AtWriteLock ==
  cpc \in {"start_lock", "stop_lock", "reset_lock", "setup_lock", "setup_cleanup_lock"}

\* the control thread is inside the write-locked section of a transition
InTransition ==
  cpc \in {"start_set", "stop_set", "reset_body", "setup_add", "setup_cleanup"}

\* a fault call is between its enable-flag test and the end of its append
PastEnableCheck(f) == fpc[f] \in {"spin", "store", "inc"}

\* C16 as stated: a lifecycle transition at its lock can go on while a fault
\* call is between its enable-flag test and the end of its append.
C16_NoWaitForFaults ==
  (AtWriteLock /\ \E f \in Faulters : PastEnableCheck(f)) => CanWriteLock

\* C16 amended: a transition takes effect only when no fault call is inside
\* its read-locked section, and from the return of smra_stop to the next
\* smra_start call no append is in flight.
C16_TransitionsWaitForFaults ==
  /\ InTransition => \A f \in Faulters : fpc[f] = "idle"
  /\ stopped => \A f \in Faulters : ~PastEnableCheck(f)

\* smra_stop is held at its write_lock by an append in flight
C16_Witness ==
  /\ cpc = "stop_lock"
  /\ ~CanWriteLock
  /\ \E f \in Faulters : fpc[f] = "inc"

\* fault calls that have taken buf_lock of target t and are done with it
Completed(t) == Len(hist[t]) - (IF Appending(t) THEN 1 ELSE 0)

\* slots [0, cur) of target t that hold the record of fault h
SlotsOf(t, h) ==
  {s \in 0 .. targets[t].buf.cur - 1 :
     /\ targets[t].buf.fault_info[s].file = h.file
     /\ targets[t].buf.fault_info[s].offset = h.offset}

C17_EachInOneSlot ==
  \A k \in 1 .. Len(smra_targets_list) :
    LET t == smra_targets_list[k]
    IN Len(hist[t]) <= targets[t].buf.size =>
         /\ targets[t].buf.cur = Completed(t)
         /\ \A j \in 1 .. Completed(t) : Cardinality(SlotsOf(t, hist[t][j])) = 1

\* C17: while the fault calls that passed the filter for a target fit in its
\* buffer, the cursor counts the calls that are done, each of them has its
\* record in exactly one slot below the cursor, and a call takes exactly one
\* reference, in the step that writes its slot.
C17_NoLostOrDuplicateAppend ==
  /\ []C17_EachInOneSlot
  /\ [][\A f \in Faulters :
          fpc'[f] # fpc[f] =>
            IF fpc[f] = "store" /\ fpc'[f] = "inc"
              THEN refs' = [refs EXCEPT ![ffile[f]] = @ + 1]
              ELSE refs' = refs]_vars

\* two fault calls that were inside the read-locked section together have
\* both appended to the same target
C17_Witness ==
  \E f, g \in Faulters :
    /\ f # g
    /\ fpc[f] = "out" /\ fpc[g] = "out"
    /\ ftarget[f] # ListHead
    /\ ftarget[g] = ftarget[f]
    /\ targets[ftarget[f]].buf.cur = 2
    /\ \E s \in 0 .. 1 : targets[ftarget[f]].buf.fault_info[s].offset = fpgoff[f]
    /\ \E s \in 0 .. 1 : targets[ftarget[f]].buf.fault_info[s].offset = fpgoff[g]

Threads == Faulters \cup {Ctl}

\* the target locks thread th holds
BufLocksOf(th) == {t \in TargetIds : targets[t].buf_lock = th}

\* C18: a thread holding a target's buf_lock holds smra_rwlock in read mode
\* (so it took the registry lock first and releases it last), no thread
\* holds two target locks, and the control thread holds neither lock while
\* smra_post_processing resolves records.
C18_LockDiscipline ==
  /\ \A th \in Threads :
       /\ BufLocksOf(th) # {} => th \in smra_rwlock.readers
       /\ Cardinality(BufLocksOf(th)) <= 1
  /\ cpc = "pp_process" =>
       /\ Ctl \notin smra_rwlock.readers
       /\ smra_rwlock.writer # Ctl
       /\ BufLocksOf(Ctl) = {}

\* records are being resolved while a fault call holds the lock of the
\* target they were copied from
C18_Witness ==
  /\ cpc = "pp_process"
  /\ ppbuf.cur >= 1
  /\ \E f \in Faulters : targets[ctarget].buf_lock = f

C19_CursorInBounds ==
  \A t \in allocd :
    /\ 0 <= targets[t].buf.cur
    /\ targets[t].buf.cur <= targets[t].buf.size
    /\ DOMAIN targets[t].buf.fault_info = 0 .. targets[t].buf.size - 1

\* C19: every target has 0 <= cur <= size, and in a step that does not
\* destroy the target its size stays, its cursor does not decrease and the
\* slots below the cursor keep their records.
C19_CursorMonotonic ==
  /\ []C19_CursorInBounds
  /\ [][\A t \in allocd \cap allocd' :
          /\ targets'[t].buf.size = targets[t].buf.size
          /\ targets'[t].buf.cur >= targets[t].buf.cur
          /\ \A j \in 0 .. targets[t].buf.cur - 1 :
               targets'[t].buf.fault_info[j] = targets[t].buf.fault_info[j]]_vars

\* a full buffer at which a further fault call has arrived and holds the lock
C19_Witness ==
  \E t \in allocd :
    /\ targets[t].buf.size >= 1
    /\ targets[t].buf.cur = targets[t].buf.size
    /\ \E f \in Faulters : fpc[f] = "store" /\ ftarget[f] = t

\* the buffer of every target
Bufs == [t \in TargetIds |-> targets[t].buf]

\* C20: the step that completes an append moves the cursor of the one
\* target found for the caller's pid by one and no step of a fault call
\* touches another target's buffer; no step of smra_start, smra_stop or
\* smra_post_processing (the steps in which no fault call moves, while that
\* call is the current one) changes a buffer, the registry or a reference
\* count; a buffer changes only in an append or in a step of smra_reset or
\* smra_setup.
C20_OnlyAppendAndResetMutate ==
  [][/\ \A f \in Faulters :
          /\ (fpc[f] = "inc" /\ fpc'[f] = "out") =>
               /\ ftarget[f] = find_target(ftgid[f])
               /\ Bufs' = [Bufs EXCEPT ![ftarget[f]].cur = @ + 1]
          /\ (fpc'[f] # fpc[f] /\ ftarget[f] # ListHead) =>
               \A u \in TargetIds \ {ftarget[f]} : Bufs'[u] = Bufs[u]
          /\ (fpc'[f] # fpc[f] /\ ftarget[f] = ListHead) => Bufs' = Bufs
     /\ (fpc' = fpc /\ cop'.name \in {"start", "stop", "post_processing"}) =>
          /\ Bufs' = Bufs
          /\ refs' = refs
          /\ smra_targets_list' = smra_targets_list
     /\ Bufs' # Bufs =>
          \/ \E f \in Faulters : fpc[f] \in {"store", "inc"} /\ fpc'[f] # fpc[f]
          \/ fpc' = fpc /\ cop.name \in {"reset", "setup"}]_vars

\* smra_post_processing has returned the metadata of a target that still
\* holds its records and their references
C20_Witness ==
  /\ Returned("post_processing")
  /\ cret = <<0>>
  /\ Len(footprints[1]) >= 1
  /\ targets[smra_targets_list[1]].buf.cur = Len(footprints[1])
  /\ \E h \in Files : refs[h] >= 1

\* positions of the registry whose target has pid p
PositionsOf(p) ==
  {k \in 1 .. Len(smra_targets_list) : targets[smra_targets_list[k]].pid = p}

\* C21: when smra_setup has returned 0 the registry is the one of before the
\* call followed by one target per identifier of the call, in order,
\* duplicates included; a fault call works on the earliest registered target
\* of its pid, and a target registered behind another of the same pid stays
\* empty.
C21_AppendOnlyFirstMatch ==
  /\ (Returned("setup") /\ cret = <<0>>) =>
       /\ Len(smra_targets_list) = Len(pre_list) + Len(cop.pids)
       /\ \A k \in 1 .. Len(pre_list) :
            /\ smra_targets_list[k] = pre_list[k]
            /\ targets[pre_list[k]].pid = pre_targets[pre_list[k]].pid
       /\ \A k \in 1 .. Len(cop.pids) :
            targets[smra_targets_list[Len(pre_list) + k]].pid = cop.pids[k]
  /\ \A f \in Faulters :
       fpc[f] \in {"spin", "store", "inc"} =>
         \E k \in PositionsOf(ftgid[f]) :
           /\ smra_targets_list[k] = ftarget[f]
           /\ \A j \in PositionsOf(ftgid[f]) : k <= j
  /\ \A i, j \in 1 .. Len(smra_targets_list) :
       (i < j /\ targets[smra_targets_list[i]].pid = targets[smra_targets_list[j]].pid) =>
         /\ targets[smra_targets_list[j]].buf.cur = 0
         /\ hist[smra_targets_list[j]] = <<>>

\* after a second smra_setup of the same pid has returned, a fault call that
\* looked the pid up in the registry of two has appended to the first target
C21_Witness ==
  /\ Returned("setup")
  /\ cret = <<0>>
  /\ Len(pre_list) = 1
  /\ Len(smra_targets_list) = 2
  /\ targets[smra_targets_list[1]].pid = targets[smra_targets_list[2]].pid
  /\ targets[smra_targets_list[2]].buf.cur = 0
  /\ \E f \in Faulters :
       /\ fpc[f] = "out"
       /\ ftarget[f] = smra_targets_list[1]
       /\ targets[smra_targets_list[1]].buf.cur >= 1
       /\ targets[smra_targets_list[1]].buf.fault_info[targets[smra_targets_list[1]].buf.cur - 1].offset
            = fpgoff[f]

\* C22: when smra_post_processing resolves the records of its snapshot, and
\* when it then follows the list link of the target it copied them from, that
\* target has not been freed and still holds those records (and with them
\* their file references).
C22_NoUseOfFreedTarget ==
  (cop.name = "post_processing" /\ cpc \in {"pp_process", "pp_relock"}) =>
    /\ ctarget \in allocd
    /\ InList(smra_targets_list, ctarget)
    /\ targets[ctarget].buf.cur >= snaps[Len(snaps)].cur
    /\ \A j \in 0 .. snaps[Len(snaps)].cur - 1 :
         targets[ctarget].buf.fault_info[j] = snaps[Len(snaps)].fault_info[j]

\* C23: the cleanup of a failed smra_setup never ends in a fault on a freed
\* target's memory, and when it has returned every target that was
\* registered has been unlinked and freed: the list is empty and no
\* registered target is left allocated.
C23_CleanupVisitsEachOnce ==
  /\ (cop.name = "setup" /\ Len(pre_list) + ci >= 1) => cpc # "oops"
  /\ (Returned("setup") /\ cret = <<0 - ENOMEM>>) =>
       /\ smra_targets_list = <<>>
       /\ allocd = {}

\* C24: after the snapshot copy the working buffer holds no record outside
\* the buffer_size records it was allocated for.
C24_CopyWithinAllocation ==
  (cop.name = "post_processing" /\ cpc \in {"pp_runlock", "pp_process"}) =>
    \A k \in DOMAIN ppbuf.fault_info : k < ppalloc

\* C25: when smra_post_processing has returned, with success or with an
\* error, its working buffer has been freed.
C25_WorkingBufferFreed ==
  Returned("post_processing") => (ppalloc = 0 /\ ppbuf = NoBuffer)

\* the registry and target locks thread th holds
HoldsLock(th) ==
  \/ smra_rwlock.writer = th
  \/ th \in smra_rwlock.readers
  \/ \E t \in TargetIds : targets[t].buf_lock = th

\* C26: no call ends in a kernel fault instead of a return (with a lock held,
\* every later caller would wait for ever), and a thread that is not inside
\* a call holds no lock.
C26_CallsReturnLocksBalanced ==
  /\ cpc # "oops"
  /\ cpc = "idle" => ~HoldsLock(Ctl)
  /\ \A f \in Faulters : fpc[f] = "idle" => ~HoldsLock(f)

\* slots of target t that hold a record: those below the cursor, and the
\* slot at the cursor while an append has written it and not yet moved the
\* cursor
Written(t) ==
  0 .. targets[t].buf.cur - (IF \E f \in Faulters : fpc[f] = "inc" /\ ftarget[f] = t
                               THEN 0 ELSE 1)

\* C27: in every target's buffer the timestamps of the recorded slots are
\* non-decreasing in slot order.
C27_TimestampsNonDecreasing ==
  \A t \in allocd :
    \A i, j \in Written(t) :
      i < j => targets[t].buf.fault_info[i].time <= targets[t].buf.fault_info[j].time

\* two calls that were at spin_lock on the same target together have both
\* appended, the one that took the lock first in the lower slot
C27_Witness ==
  \E f, g \in Faulters :
    /\ f # g
    /\ fpc[f] = "out" /\ fpc[g] = "out"
    /\ ftarget[f] # ListHead
    /\ ftarget[g] = ftarget[f]
    /\ LET buf == targets[ftarget[f]].buf
       IN /\ buf.cur = 2
          /\ buf.fault_info[0].offset = fpgoff[g]
          /\ buf.fault_info[1].offset = fpgoff[f]
          /\ fpgoff[f] < fpgoff[g]
          /\ buf.fault_info[0].time >= 1

(* ======================= max77779_vdroop.c ======================= *)
(* The VDROOP_INT register is a set of interrupt bits; `&` on it is set   *)
(* intersection.  One step is one call of max77779_get_irq.               *)

\* the four BCL bits of MAX77779_PMIC_VDROOP_INT and one bit that is none of them
VdroopBits == {"SYS_UVLO1_INT", "SYS_UVLO2_INT", "BAT_OILO1_INT", "BAT_OILO2_INT", "OTHER_INT"}
IrqSources == {"UVLO1", "UVLO2", "BATOILO1", "BATOILO2"}
IRQ_NONE == 0
EIO == 5
\* what max77779_external_pmic_reg_read can return: 0, or a negative errno
ReadErrs == {0, EIO}

\* a value stored in a u8
U8(x) == x % 256

clr_bcl_irq_mask == {"BAT_OILO2_INT", "BAT_OILO1_INT", "SYS_UVLO1_INT", "SYS_UVLO2_INT"}

\* vdroop_int after the register read: the register on success; on failure the
\* local was never written, so it holds any value
ReadResults(reg, err) == IF err = 0 THEN {reg} ELSE SUBSET VdroopBits

Triggered_oilo1first(v) ==
  IF "SYS_UVLO2_INT" \in v THEN "UVLO2"
  ELSE IF "BAT_OILO1_INT" \in v THEN "BATOILO1"
  ELSE IF "BAT_OILO2_INT" \in v THEN "BATOILO2"
  ELSE "UVLO1"

\* the if / else-if chain that picks the source to report
Triggered(v) ==
  IF "SYS_UVLO2_INT" \in v THEN "UVLO2"
  ELSE IF "BAT_OILO2_INT" \in v THEN "BATOILO2"
  ELSE IF "BAT_OILO1_INT" \in v THEN "BATOILO1"
  ELSE "UVLO1"

\* max77779_get_irq(bcl_dev, &irq_val) with the register holding reg, the read
\* failing with -err (err = 0: no failure) and *irq_val = iv at the call
max77779_get_irq(reg, err, iv) ==
  /\ vdroop_reg' = reg
  /\ read_err' = err
  /\ irq_val_in' = iv
  /\ \E v \in ReadResults(reg, err) :
       LET ret == U8(0 - err) IN     \* u8 ret = (int) result of the read
       /\ vdroop_int' = v
       /\ IF ret < 0
            THEN irq_val' = iv /\ bcl_ret' = <<IRQ_NONE>>
          ELSE IF v \cap clr_bcl_irq_mask = {}
            THEN irq_val' = iv /\ bcl_ret' = <<IRQ_NONE>>
          ELSE irq_val' = Triggered(v) /\ bcl_ret' = <<ret>>
  /\ UNCHANGED <<smravars, mmvars>>

NextBcl ==
  \E reg \in SUBSET VdroopBits, err \in ReadErrs, iv \in IrqSources :
    max77779_get_irq(reg, err, iv)

SpecBcl == Init /\ [][NextBcl]_vars

(* ---- properties of max77779_get_irq ---- *)

\* the source each BCL bit stands for, and the priority of the sources
SourceOf(bit) ==
  CASE bit = "SYS_UVLO2_INT" -> "UVLO2"
    [] bit = "BAT_OILO2_INT" -> "BATOILO2"
    [] bit = "BAT_OILO1_INT" -> "BATOILO1"
    [] bit = "SYS_UVLO1_INT" -> "UVLO1"
Outranks(a, b) ==
  LET order == <<"UVLO1", "BATOILO1", "BATOILO2", "UVLO2">>
      pos(s) == CHOOSE i \in 1..4 : order[i] = s
  IN pos(a) >= pos(b)
Pending == {SourceOf(b) : b \in vdroop_reg \cap clr_bcl_irq_mask}

\* C28: after a successful register read, max77779_get_irq reports in *irq_val
\* the pending source of highest priority (UVLO2 > BATOILO2 > BATOILO1 > UVLO1)
\* for every combination of bits, and when none of the four bits is set it
\* returns IRQ_NONE and leaves *irq_val as it was.
C28_HighestPriorityReported ==
  (bcl_ret # NoRet /\ read_err = 0) =>
    IF Pending = {}
      THEN bcl_ret = <<IRQ_NONE>> /\ irq_val = irq_val_in
      ELSE irq_val \in Pending /\ \A s \in Pending : Outranks(irq_val, s)

\* both BATOILO bits and UVLO1 pending, UVLO2 not: BATOILO2 is reported
C28_Witness ==
  /\ bcl_ret # NoRet
  /\ read_err = 0
  /\ vdroop_reg = {"BAT_OILO2_INT", "BAT_OILO1_INT", "SYS_UVLO1_INT", "OTHER_INT"}
  /\ irq_val_in = "UVLO1"
  /\ irq_val = "BATOILO2"

\* C29: when the register read fails, max77779_get_irq returns IRQ_NONE and
\* leaves *irq_val as it was.
C29_FailedReadReportsNothing ==
  (bcl_ret # NoRet /\ read_err # 0) =>
    (bcl_ret = <<IRQ_NONE>> /\ irq_val = irq_val_in)

(* ======================= pixel_mm_hint.c ======================= *)
(* The two module parameters and get_mm_hint_mode.  A parameter value is  *)
(* a string, modelled as a sequence of characters; one step is one call.  *)

MaxStrLen == 2
MM_HINT_NONE == 0
MM_HINT_APP_LAUNCH == 1
MM_HINT_CAMERA_LAUNCH == 2
MM_HINT_NUM == 3
EINVAL == 22

Digits == {"0", "1", "2", "3", "5"}
Chars == Digits \cup {"y", "n", "o", "f", "+", "-", "\n"}
Strings == UNION {[1..n -> Chars] : n \in 0..MaxStrLen}

DigitVal(c) ==
  CASE c = "0" -> 0 [] c = "1" -> 1 [] c = "2" -> 2 [] c = "3" -> 3 [] c = "5" -> 5

\* the leading decimal digits of s: how many there are and their value
RECURSIVE parse_integer(_, _, _)
parse_integer(s, n, acc) ==
  IF s # <<>> /\ Head(s) \in Digits
    THEN parse_integer(Tail(s), n + 1, acc * 10 + DigitVal(Head(s)))
    ELSE [rv |-> n, res |-> acc]

\* kstrtoul(s, 10, &res): an optional '+', at least one digit, an optional
\* final newline and nothing else; anything else is an error
kstrtoul(s) ==
  LET t    == IF s # <<>> /\ Head(s) = "+" THEN Tail(s) ELSE s
      p    == parse_integer(t, 0, 0)
      rest == SubSeq(t, p.rv + 1, Len(t))
      end  == IF rest # <<>> /\ Head(rest) = "\n" THEN Tail(rest) ELSE rest
  IN IF p.rv = 0 \/ end # <<>>
       THEN [err |-> EINVAL, res |-> 0]
       ELSE [err |-> 0, res |-> p.res]

\* kstrtobool(s, &res): decided by the first character, or by the second after 'o'
kstrtobool(s) ==
  CASE s # <<>> /\ s[1] \in {"y", "1"} -> [err |-> 0, res |-> TRUE]
    [] s # <<>> /\ s[1] \in {"n", "0"} -> [err |-> 0, res |-> FALSE]
    [] Len(s) >= 2 /\ s[1] = "o" /\ s[2] = "n" -> [err |-> 0, res |-> TRUE]
    [] Len(s) >= 2 /\ s[1] = "o" /\ s[2] = "f" -> [err |-> 0, res |-> FALSE]
    [] OTHER -> [err |-> EINVAL, res |-> FALSE]

mm_hint_enable_set(val) ==
  LET r == kstrtobool(val) IN
  /\ mm_op' = "enable_set"
  /\ mm_val' = val
  /\ IF r.err # 0
       THEN mm_ret' = <<0 - EINVAL>> /\ UNCHANGED mm_hint_enable
       ELSE mm_hint_enable' = (IF r.res THEN 1 ELSE 0) /\ mm_ret' = <<0>>
  /\ UNCHANGED <<mm_hint_mode, mm_accepted, smravars, bclvars>>

get_mm_hint_mode ==
  /\ mm_op' = "get"
  /\ mm_val' = <<>>
  /\ mm_ret' = <<IF mm_hint_enable # 0 THEN mm_hint_mode ELSE MM_HINT_NONE>>
  /\ UNCHANGED <<mm_hint_enable, mm_hint_mode, mm_accepted, smravars, bclvars>>

ValidMode_upto(value) == value <= MM_HINT_NUM

ValidMode(value) == value < MM_HINT_NUM

mm_hint_mode_set(val) ==
  LET r == kstrtoul(val) IN
  /\ mm_op' = "mode_set"
  /\ mm_val' = val
  /\ IF r.err # 0
       THEN mm_ret' = <<0 - EINVAL>> /\ UNCHANGED <<mm_hint_mode, mm_accepted>>
     ELSE IF ValidMode(r.res)
       THEN mm_hint_mode' = r.res /\ mm_accepted' = r.res /\ mm_ret' = <<0>>
     ELSE mm_ret' = <<0 - EINVAL>> /\ UNCHANGED <<mm_hint_mode, mm_accepted>>
  /\ UNCHANGED <<mm_hint_enable, smravars, bclvars>>

NextMm ==
  \/ \E val \in Strings : mm_hint_enable_set(val)
  \/ \E val \in Strings : mm_hint_mode_set(val)
  \/ get_mm_hint_mode

SpecMm == Init /\ [][NextMm]_vars

(* ---- properties of the mm hint ---- *)

\* val is not a decimal number, or is one that is no mode
NoMode(val) == kstrtoul(val).err # 0 \/ kstrtoul(val).res >= MM_HINT_NUM

\* C30: the stored mode is always below MM_HINT_NUM; get_mm_hint_mode returns
\* MM_HINT_NONE while the hint is disabled and otherwise the last mode a
\* mm_hint_mode_set accepted; and a mm_hint_mode_set whose value does not parse
\* or is MM_HINT_NUM or more returns -EINVAL and leaves the stored mode as it was.
C30_ModeAlwaysValid ==
  /\ [](/\ mm_hint_mode \in 0..(MM_HINT_NUM - 1)
        /\ mm_op = "get" =>
             mm_ret = <<IF mm_hint_enable = 0 THEN MM_HINT_NONE ELSE mm_accepted>>)
  /\ [][(mm_op' = "mode_set" /\ NoMode(mm_val')) =>
          (mm_ret' = <<0 - EINVAL>> /\ mm_hint_mode' = mm_hint_mode)]_vars

\* camera-launch mode was accepted, the hint is on, and a mode_set of "3" was rejected
C30_Witness ==
  /\ mm_op = "mode_set"
  /\ mm_val = <<"3">>
  /\ mm_ret = <<0 - EINVAL>>
  /\ mm_hint_enable = 1
  /\ mm_hint_mode = MM_HINT_CAMERA_LAUNCH

====
